---- MODULE Spec2Model ----
(***************************************************************************)
(* Model of the itch install pipeline (src/metal/install_manager.coffee)   *)
(* and of the game update checker (src/unnamed/part_000).                  *)
(*                                                                         *)
(* SpecInstall : the AppInstall pipelines created by DOWNLOAD_QUEUE.       *)
(* SpecCheck   : one run of doCheckForGameUpdate on one cave, split at its *)
(*               await points, with launch tasks coming and going.         *)
(***************************************************************************)
EXTENDS Integers, Sequences, FiniteSets, TLC

VARIABLES
    items,      \* install_manager.coffee: the module-level list of AppInstall
    files,      \* the archives directory: archive path -> state of the file
    cave,       \* the cave record (ICaveRecord) under consideration
    chk,        \* the activation record of _doCheckForGameUpdate
    launchTask, \* state.tasks.tasksByGameId[game.id] holds a "launch" task
    queued,     \* the requests handed to startDownload, in order
    modals,     \* the openModal actions dispatched to the store
    statusMessages, \* the statusMessage actions dispatched to the store
    netCalls,   \* the collaborator calls that go to the network, in order
    updaterInstalled, \* the module-level flag of the updater
    loops,      \* the running sessionReady loops: the delay each one is suspended on
    readyCalls, \* the number of sessionReady signals received
    passes,     \* the activation records of checkForGameUpdates, in dispatch order
    interval,   \* the time between the last two dispatches of a loop, -1 before
    storeCaves  \* the ids of the caves in the global market

vars ==
    <<items, files, cave, chk, launchTask, queued, modals, statusMessages, netCalls,
      updaterInstalled, loops, readyCalls, passes, interval, storeCaves>>

installVars == <<items, files>>
checkVars == <<chk, launchTask, queued, modals, statusMessages, netCalls>>
schedVars == <<updaterInstalled, loops, readyCalls, passes, interval, storeCaves>>

----------------------------------------------------------------------------
(* Bounds *)

MaxInstalls == 2        \* AppInstall objects created in one run
MaxListed == 2          \* length of an uploads answer given to the pipeline
MaxUploads == 3         \* candidate uploads findUpload returns to a check
MaxReady == 2           \* sessionReady signals in one run
MaxPasses == 2          \* "check all items" requests dispatched in one run

----------------------------------------------------------------------------
(* Helpers *)

SeqsUpTo(S, n) == UNION {[1..k -> S] : k \in 0..n}

----------------------------------------------------------------------------
(* The install pipeline: src/metal/install_manager.coffee                  *)

InstallState ==
    <<"PENDING", "SEARCHING_UPLOAD", "DOWNLOADING", "EXTRACTING", "CONFIGURING", "RUNNING">>

Rank(s) == CHOOSE k \in 1..Len(InstallState) : InstallState[k] = s

\* a game bought with a download key and a game owned outright
Games == {[title |-> "A", key |-> TRUE], [title |-> "B", key |-> FALSE]}

\* the upload ids the pipeline's API answers range over; the archive path is named
\* after the id
ArchiveIds == {1, 2}

\* the uploads of an answer: those for this platform, and one for another platform
ListedUploads == [id : ArchiveIds, p : {TRUE}] \cup {[id |-> 3, p |-> FALSE]}

Call(op, arg) == [op |-> op, arg |-> arg]

\* new AppInstall(opts) up to the end of the constructor's assignments
AppInstall(game) ==
    [game |-> game,
     state |-> "PENDING",
     stateLog |-> <<"PENDING">>,
     upload |-> 0,
     archive_path |-> 0,
     url |-> FALSE,
     executables |-> -1,
     pending |-> "none",
     existed |-> "unknown",
     writer |-> "none",
     progress |-> "none",
     calls |-> <<>>,
     failed |-> "none",
     raised |-> FALSE]

SetState(it, s) == [it EXCEPT !.state = s, !.stateLog = Append(@, s)]

Did(it, op, arg) == [it EXCEPT !.calls = Append(@, Call(op, arg))]

\* search_for_uploads, up to the API call it leaves pending
search_for_uploads(it) ==
    [Did(SetState(it, "SEARCHING_UPLOAD"),
         IF it.game.key THEN "download_key_uploads" ELSE "game_uploads", it.game.title)
       EXCEPT !.pending = "uploads"]

start(it) == search_for_uploads(it)

\* get_url, up to the API call it leaves pending
get_url(it) ==
    [Did(SetState(it, "DOWNLOADING"),
         IF it.game.key THEN "download_upload_with_key" ELSE "download_upload", it.upload)
       EXCEPT !.pending = "url"]

\* set_upload: the archive path is a function of the upload id
set_upload(it, upload) ==
    get_url([it EXCEPT !.upload = upload.id, !.archive_path = upload.id])

\* extract, up to the extractor call it leaves pending
extract(it) ==
    [Did(SetState(it, "EXTRACTING"), "extract", it.archive_path) EXCEPT !.pending = "extract"]

\* configure, up to the configurator call it leaves pending
configure(it) ==
    [Did(SetState(it, "CONFIGURING"), "configure", it.game.title) EXCEPT !.pending = "configure"]

\* a catch handler that starts the extraction again instead of re-raising
extractCatch_retry(it, e) ==
    IF e = "extractor"
    THEN [Did(Did(it, "notify_failed", it.game.title), "extract", it.archive_path)
            EXCEPT !.failed = e, !.pending = "extract"]
    ELSE [Did(it, "notify_failed", it.game.title)
            EXCEPT !.failed = e, !.raised = TRUE, !.pending = "none"]

\* the .catch handler of extract's promise chain; e names the collaborator that failed
extractCatch(it, e) ==
    [Did(it, "notify_failed", it.game.title)
       EXCEPT !.failed = e, !.raised = TRUE, !.pending = "none"]

\* launch; @executables[0] of a missing list is a TypeError after the state was set
launch(it, launcherOk) ==
    LET running == SetState(it, "RUNNING") IN
    IF it.executables < 0 THEN extractCatch(running, "launch")
    ELSE IF launcherOk THEN [Did(running, "launch", it.executables) EXCEPT !.pending = "none"]
         ELSE extractCatch(Did(running, "launch", it.executables), "launcher")

\* a download that hands an archive found on disk straight to the configurator
download_skipExtract(it, exists) ==
    LET d == SetState(it, "DOWNLOADING") IN
    IF exists THEN configure([d EXCEPT !.existed = "yes"])
    ELSE [Did([d EXCEPT !.existed = "no"], "request_get", it.upload)
            EXCEPT !.pending = "transfer", !.writer = "created"]

\* a download with the existence test the wrong way round
download_inverted(it, exists) ==
    LET d == SetState(it, "DOWNLOADING") IN
    IF ~exists THEN extract([d EXCEPT !.existed = "yes"])
    ELSE [Did([d EXCEPT !.existed = "no"], "request_get", it.upload)
            EXCEPT !.pending = "transfer", !.writer = "created"]

\* download: the existence test, then either extract or the start of the transfer
download(it, exists) ==
    LET d == SetState(it, "DOWNLOADING") IN
    IF exists THEN extract([d EXCEPT !.existed = "yes"])
    ELSE [Did([d EXCEPT !.existed = "no"], "request_get", it.upload)
            EXCEPT !.pending = "transfer", !.writer = "created"]

\* a 'close' handler that extracts before it reports the end of the transfer
downloadClose_extractFirst(it) ==
    LET e == extract([it EXCEPT !.writer = "closed", !.progress = "cleared"])
    IN Did(Did(Did(e, "clear_progress", 0), "bounce", 0), "notify_finished", it.game.title)

\* the 'close' handler of the piped writer
downloadClose(it) ==
    extract(Did(Did(Did([it EXCEPT !.writer = "closed", !.progress = "cleared"],
                        "clear_progress", 0), "bounce", 0), "notify_finished", it.game.title))

\* install's dispatcher callback, DOWNLOAD_QUEUE
DownloadQueue(game) ==
    /\ Len(items) < MaxInstalls
    /\ items' = Append(items, start(AppInstall(game)))
    /\ UNCHANGED <<files, cave, checkVars, schedVars>>

\* the uploads call resolves: the .then callback of search_for_uploads
UploadsResolved(i, uploads) ==
    /\ items[i].pending = "uploads"
    /\ LET IsInteresting(u) == u.p
           interesting_uploads == SelectSeq(uploads, IsInteresting)
       IN items' = [items EXCEPT ![i] =
              IF Len(interesting_uploads) > 0
              THEN set_upload(@, interesting_uploads[1])
              ELSE [Did(@, "notify_no_uploads", @.game.title) EXCEPT !.pending = "none"]]
    /\ UNCHANGED <<files, cave, checkVars, schedVars>>

\* an API call of the pipeline rejects: no handler is attached, the pipeline stops
ApiRejected(i) ==
    /\ items[i].pending \in {"uploads", "url"}
    /\ items' = [items EXCEPT ![i].pending = "none", ![i].raised = TRUE, ![i].failed = "api"]
    /\ UNCHANGED <<files, cave, checkVars, schedVars>>

\* the url call resolves: the .then callback of get_url, which runs download
UrlResolved(i) ==
    /\ items[i].pending = "url"
    /\ items' = [items EXCEPT ![i] =
           download([@ EXCEPT !.url = TRUE], files[@.archive_path] # "absent")]
    /\ UNCHANGED <<files, cave, checkVars, schedVars>>

\* fstream.Writer opens its destination: the file exists from now on
WriterOpen(i) ==
    /\ items[i].pending = "transfer"
    /\ items[i].writer = "created"
    /\ items' = [items EXCEPT ![i].writer = "open"]
    /\ files' = [files EXCEPT ![items[i].archive_path] = "partial"]
    /\ UNCHANGED <<cave, checkVars, schedVars>>

\* the 'progress' handler of the transfer: AppActions.set_progress shows the indicator
TransferProgress(i) ==
    /\ items[i].pending = "transfer"
    /\ items[i].progress = "none"
    /\ items' = [items EXCEPT ![i].progress = "shown"]
    /\ UNCHANGED <<files, cave, checkVars, schedVars>>

\* the writer closes: the file is whole unless another writer still has it open
TransferClose(i) ==
    /\ items[i].pending = "transfer"
    /\ items[i].writer = "open"
    /\ LET path == items[i].archive_path
           others == {j \in 1..Len(items) :
                         j # i /\ items[j].archive_path = path /\ items[j].writer = "open"}
       IN files' = [files EXCEPT ![path] = IF others = {} THEN "complete" ELSE "partial"]
    /\ items' = [items EXCEPT ![i] = downloadClose(@)]
    /\ UNCHANGED <<cave, checkVars, schedVars>>

\* the extractor's promise settles
ExtractSettled(i, ok) ==
    /\ items[i].pending = "extract"
    /\ items' = [items EXCEPT ![i] = IF ok THEN configure(@) ELSE extractCatch(@, "extractor")]
    /\ UNCHANGED <<files, cave, checkVars, schedVars>>

\* the configurator's promise settles; executables = -1 stands for a result without the list
ConfigureSettled(i, ok, executables, launcherOk) ==
    /\ items[i].pending = "configure"
    /\ items' = [items EXCEPT ![i] =
           IF ok THEN launch([@ EXCEPT !.executables = executables], launcherOk)
           ELSE extractCatch(@, "configurator")]
    /\ UNCHANGED <<files, cave, checkVars, schedVars>>

----------------------------------------------------------------------------
(* The update checker: src/unnamed/part_000                                *)

UserIds == {1, 2}           \* 0 stands for "no user"
UploadIds == 1..3
BuildIds == {5, 7}          \* 0 stands for "no build id"
UpdatedAts == {2, 3}
InstalledAts == {-1, 2}     \* -1 stands for a date moment cannot parse

ErrKinds == {"claim", "network", "other"}

Caves ==
    [installedBy : {0} \cup UserIds,
     launchable : BOOLEAN,
     gameId : {0, 1},
     uploadId : 0..2,
     buildId : {0, 5},
     installedAt : InstalledAts]

RECURSIVE SortedSeq(_)
SortedSeq(S) ==
    IF S = {} THEN <<>>
    ELSE LET m == CHOOSE x \in S : \A y \in S : x <= y
         IN <<m>> \o SortedSeq(S \ {m})

\* the size of an upload is fixed by its id
Size(id) == 10 * id

UploadsOf(S, b, t) ==
    LET ids == SortedSeq(S)
    IN [k \in 1..Len(ids) |-> [id |-> ids[k], buildId |-> b[ids[k]], updatedAt |-> t[ids[k]]]]

\* the answers of findUpload: at most MaxUploads uploads, distinct ids, listed by id
UploadLists ==
    {UploadsOf(S, b, t) :
        S \in {T \in SUBSET UploadIds : Cardinality(T) <= MaxUploads},
        b \in [UploadIds -> {0} \cup BuildIds],
        t \in [UploadIds -> UpdatedAts]}

\* the answers of findUpgradePath
UpgradePaths == [upgradePath : {<<>>, <<7>>, <<6, 7>>}, totalSize : {0, 40}]

NoUpload == [id |-> 0, buildId |-> 0, updatedAt |-> 0]
NoPath == [upgradePath |-> <<>>, totalSize |-> -1]

NoErr == [form |-> "undefined", e |-> "none"]
Err(form, e) == [form |-> form, e |-> e]

\* an IUpdateCheckResult value
Result(err, game, hasUpgrade) ==
    [kind |-> "value", err |-> err, game |-> game, hasUpgrade |-> hasUpgrade, code |-> "none"]
Thrown(name, code) ==
    [kind |-> "thrown", err |-> Err("thrown", name), game |-> "undefined",
     hasUpgrade |-> "undefined", code |-> code]
NoResult ==
    [kind |-> "none", err |-> NoErr, game |-> "undefined", hasUpgrade |-> "undefined",
     code |-> "none"]
Undefined ==
    [kind |-> "undefined", err |-> NoErr, game |-> "undefined", hasUpgrade |-> "undefined",
     code |-> "none"]

Bool(b) == IF b THEN "true" ELSE "false"

\* doCheckForGameUpdate: what the wrapper makes of the outcome of _doCheckForGameUpdate
doCheckForGameUpdate(r) ==
    IF r.kind = "thrown" /\ r.code = "ENOTFOUND" THEN Undefined ELSE r

IdleCheck ==
    [pc |-> "idle", noisy |-> FALSE, me |-> 0, tasksForGame |-> FALSE, guards |-> <<>>,
     returnVars |-> NoResult, uploads |-> <<>>, recentUploads |-> <<>>,
     upload |-> NoUpload, hasUpgrade |-> FALSE, resolved |-> NoPath,
     rejected |-> "none", rejectedWith |-> "none", result |-> NoResult,
     reported |-> FALSE]

Finish(c, r) == [c EXCEPT !.pc = "done", !.result = doCheckForGameUpdate(r)]

\* the awaited collaborator rejected
Rejected(c, by, e) == [c EXCEPT !.rejected = by, !.rejectedWith = e]

\* moment.tz(cave.installedAt, "UTC"), replaced by the epoch when invalid
installedAt(c) == IF c.installedAt < 0 THEN 0 ELSE c.installedAt

\* a comparison that also takes an upload updated at the install time
isRecent_orEqual(c, upload) == upload.updatedAt >= installedAt(c)

isRecent(c, upload) == upload.updatedAt > installedAt(c)

\* a lookup that matches the id against the uploads' build ids
findWhere_byBuild(uploads, id) ==
    LET hits == {k \in 1..Len(uploads) : uploads[k].buildId = id}
    IN IF hits = {} THEN NoUpload
       ELSE uploads[CHOOSE k \in hits : \A j \in hits : k <= j]

\* a lookup that falls back on the first upload when no id matches
findWhere_orFirst(uploads, id) ==
    LET hits == {k \in 1..Len(uploads) : uploads[k].id = id}
    IN IF uploads = <<>> THEN NoUpload
       ELSE IF hits = {} THEN uploads[1]
       ELSE uploads[CHOOSE k \in hits : \A j \in hits : k <= j]

\* findWhere(values(uploads), {id}): the first upload of that id, or none
findWhere(uploads, id) ==
    LET hits == {k \in 1..Len(uploads) : uploads[k].id = id}
    IN IF hits = {} THEN NoUpload
       ELSE uploads[CHOOSE k \in hits : \A j \in hits : k <= j]

\* a request that leaves out the incremental flag and the patch list
IncrementalRequest_full(upload, resolved) ==
    [upload |-> upload.id, reason |-> "update", incremental |-> "undefined",
     handPicked |-> "undefined", upgradePath |-> <<>>,
     totalSize |-> Size(upload.id), cave |-> TRUE]

\* the request object handed to startDownload in the incremental branch
IncrementalRequest(upload, resolved) ==
    [upload |-> upload.id, reason |-> "update", incremental |-> "true",
     handPicked |-> "undefined", upgradePath |-> resolved.upgradePath,
     totalSize |-> resolved.totalSize, cave |-> TRUE]

\* the request object of a full download of one upload
FullRequest(upload, handPicked) ==
    [upload |-> upload.id, reason |-> "update", incremental |-> "undefined",
     handPicked |-> Bool(handPicked), upgradePath |-> <<>>,
     totalSize |-> Size(upload.id), cave |-> FALSE]

\* a button whose download is not marked as picked by the user
BigButton_auto(upload) ==
    [action |-> [upload |-> upload.id, reason |-> "update", incremental |-> "undefined",
                 handPicked |-> "false", upgradePath |-> <<>>,
                 totalSize |-> Size(upload.id), cave |-> FALSE],
     icon |-> "download"]

\* one big button of the pick_update_upload modal
BigButton(upload) == [action |-> FullRequest(upload, TRUE), icon |-> "download"]

Modal(recentUploads) ==
    [title |-> "pick_update_upload.title",
     bigButtons |-> [k \in 1..Len(recentUploads) |-> BigButton(recentUploads[k])],
     buttons |-> <<"cancel">>]

\* an outer catch without the case of the download key of another user
outerCatch_noClaim(c, e) ==
    IF e = "network" THEN Finish(c, Result(Err("new", "Network error"), "undefined", "undefined"))
    ELSE Finish(c, Result(Err("error", e), "undefined", "undefined"))

\* the outer catch of _doCheckForGameUpdate
outerCatch(c, e) ==
    IF e = "claim" THEN Finish(c, c.returnVars)
    ELSE IF e = "network" THEN Finish(c, Result(Err("new", "Network error"), "undefined", "undefined"))
    ELSE Finish(c, Result(Err("error", e), "undefined", "undefined"))

\* a guard with the comparison the wrong way round
installedByGuard_same(c, me) == c.installedBy # 0 /\ me # 0 /\ c.installedBy = me

\* the guard on the installing user
installedByGuard(c, me) == c.installedBy # 0 /\ me # 0 /\ c.installedBy # me

\* entry guards without the test of cave.launchable
entryGuards_noLaunchable(c, me) ==
    IF installedByGuard(c, me) THEN [skip |-> TRUE, guards |-> <<"installedBy">>]
    ELSE IF c.gameId = 0
         THEN [skip |-> TRUE, guards |-> <<"installedBy", "gameId">>]
         ELSE [skip |-> FALSE, guards |-> <<"installedBy", "gameId">>]

\* the guards before the game fetch, lines 124-141: which were evaluated, and whether one
\* of them returned
entryGuards(c, me) ==
    IF installedByGuard(c, me) THEN [skip |-> TRUE, guards |-> <<"installedBy">>]
    ELSE IF ~c.launchable THEN [skip |-> TRUE, guards |-> <<"installedBy", "launchable">>]
    ELSE IF c.gameId = 0
         THEN [skip |-> TRUE, guards |-> <<"installedBy", "launchable", "gameId">>]
         ELSE [skip |-> FALSE, guards |-> <<"installedBy", "launchable", "gameId">>]

\* _doCheckForGameUpdate from its entry to the await on fetch.gameLazily
StartCheck(noisy, me) ==
    /\ chk.pc = "idle"
    /\ LET g == entryGuards(cave, me)
           c0 == [chk EXCEPT !.noisy = noisy, !.me = me, !.tasksForGame = launchTask,
                             !.guards = g.guards]
       IN IF g.skip
          THEN /\ chk' = Finish(c0, Result(NoErr, "undefined", "false"))
               /\ UNCHANGED netCalls
          ELSE /\ chk' = [c0 EXCEPT !.guards = Append(@, "gameFetch"), !.pc = "fetchGame"]
               /\ netCalls' = Append(netCalls, "gameLazily")
    /\ UNCHANGED <<installVars, schedVars, cave, launchTask, queued, modals, statusMessages>>

\* fetch.gameLazily rejects
FetchGameRejected(e) ==
    /\ chk.pc = "fetchGame"
    /\ chk' = Finish(Rejected(chk, "gameLazily", e), Result(Err("error", e), "undefined", "undefined"))
    /\ UNCHANGED <<installVars, schedVars, cave, launchTask, queued, modals, statusMessages, netCalls>>

\* fetch.gameLazily resolves: lines 152-187, up to the await on findUpload
FetchGameResolved(found) ==
    /\ chk.pc = "fetchGame"
    /\ LET c0 == [chk EXCEPT !.returnVars =
                      Result(NoErr, IF found THEN "game" ELSE "null", "false")]
       IN IF ~found
          THEN \* the log line reads game.title of a missing game
               chk' = Finish(c0, Thrown("TypeError", "none")) /\ UNCHANGED netCalls
          ELSE IF chk.tasksForGame
          THEN chk' = Finish([c0 EXCEPT !.guards = Append(@, "launchTask")], c0.returnVars)
               /\ UNCHANGED netCalls
          ELSE /\ chk' = [c0 EXCEPT !.guards = Append(@, "launchTask"), !.pc = "findUpload"]
               /\ netCalls' = Append(netCalls, "findUpload")
    /\ UNCHANGED <<installVars, schedVars, cave, launchTask, queued, modals, statusMessages>>

\* findUpload rejects
FindUploadRejected(e) ==
    /\ chk.pc = "findUpload"
    /\ chk' = outerCatch(Rejected(chk, "findUpload", e), e)
    /\ UNCHANGED <<installVars, schedVars, cave, launchTask, queued, modals, statusMessages, netCalls>>

\* findUpload resolves: lines 187-333, up to the next await or the return
FindUploadResolved(uploads) ==
    /\ chk.pc = "findUpload"
    /\ LET recentUploads == SelectSeq(uploads, LAMBDA u : isRecent(cave, u))
           c0 == [chk EXCEPT !.uploads = uploads, !.recentUploads = recentUploads,
                             !.hasUpgrade = FALSE]
           tracked == cave.uploadId # 0 /\ cave.buildId # 0
           matched == findWhere(uploads, cave.uploadId)
           usable == tracked /\ matched.id # 0 /\ matched.buildId # 0
           single == recentUploads[1]
           differentUpload == single.id # cave.uploadId
           wentWharf == single.buildId # 0 /\ cave.buildId = 0
       IN IF Len(uploads) = 0
          THEN /\ chk' = Finish(c0, Result(Err("new", "No uploads found"), "undefined", "undefined"))
               /\ UNCHANGED <<queued, modals, statusMessages, netCalls>>
          ELSE IF usable /\ matched.buildId # cave.buildId
          THEN /\ chk' = [c0 EXCEPT !.upload = matched, !.hasUpgrade = TRUE,
                                    !.pc = "findUpgradePath"]
               /\ statusMessages' = IF chk.noisy
                                    THEN Append(statusMessages, "status.game_update.found")
                                    ELSE statusMessages
               /\ netCalls' = Append(netCalls, "findUpgradePath")
               /\ UNCHANGED <<queued, modals>>
          ELSE IF usable
          THEN /\ chk' = Finish([c0 EXCEPT !.upload = matched], c0.returnVars)
               /\ UNCHANGED <<queued, modals, statusMessages, netCalls>>
          ELSE IF Len(recentUploads) = 0
          THEN /\ chk' = Finish(c0, c0.returnVars)
               /\ UNCHANGED <<queued, modals, statusMessages, netCalls>>
          ELSE IF Len(recentUploads) > 1
          THEN /\ modals' = Append(modals, Modal(recentUploads))
               /\ chk' = Finish(c0, [c0.returnVars EXCEPT !.hasUpgrade = "true"])
               /\ UNCHANGED <<queued, statusMessages, netCalls>>
          ELSE IF c0.hasUpgrade \/ differentUpload \/ wentWharf
          THEN /\ queued' = Append(queued, FullRequest(single, FALSE))
               /\ chk' = [c0 EXCEPT !.upload = single, !.pc = "startDownloadFull"]
               /\ UNCHANGED <<modals, statusMessages, netCalls>>
          ELSE /\ chk' = Finish([c0 EXCEPT !.upload = single], c0.returnVars)
               /\ UNCHANGED <<queued, modals, statusMessages, netCalls>>
    /\ UNCHANGED <<installVars, schedVars, cave, launchTask>>

\* findUpgradePath resolves: the incremental request goes to startDownload
FindUpgradePathResolved(resolved) ==
    /\ chk.pc = "findUpgradePath"
    /\ chk' = [chk EXCEPT !.resolved = resolved, !.pc = "startDownloadInc"]
    /\ queued' = Append(queued, IncrementalRequest(chk.upload, resolved))
    /\ UNCHANGED <<installVars, schedVars, cave, launchTask, modals, statusMessages, netCalls>>

\* an inner catch that takes a failed resolution for "nothing to do"
innerCatch_upToDate(c, e) == Finish(c, c.returnVars)

\* the inner catch, lines 251-254
innerCatch(c, e) == Finish(c, Result(Err("message", e), "undefined", "undefined"))

\* findUpgradePath rejects
FindUpgradePathRejected(e) ==
    /\ chk.pc = "findUpgradePath"
    /\ chk' = innerCatch(Rejected(chk, "findUpgradePath", e), e)
    /\ UNCHANGED <<installVars, schedVars, cave, launchTask, queued, modals, statusMessages, netCalls>>

\* startDownload resolves: line 250 or line 332
StartDownloadResolved ==
    /\ chk.pc \in {"startDownloadInc", "startDownloadFull"}
    /\ chk' = Finish(chk, [chk.returnVars EXCEPT !.hasUpgrade = Bool(chk.hasUpgrade)])
    /\ UNCHANGED <<installVars, schedVars, cave, launchTask, queued, modals, statusMessages, netCalls>>

\* startDownload rejects: the inner catch in the incremental branch, else the outer one
StartDownloadRejected(e) ==
    /\ chk.pc \in {"startDownloadInc", "startDownloadFull"}
    /\ chk' = IF chk.pc = "startDownloadInc"
              THEN innerCatch(Rejected(chk, "startDownload", e), e)
              ELSE outerCatch(Rejected(chk, "startDownload", e), e)
    /\ UNCHANGED <<installVars, schedVars, cave, launchTask, queued, modals, statusMessages, netCalls>>

\* checkForGameUpdate after its await: the status messages of lines 78-93 for the
\* outcome r of doCheckForGameUpdate
checkForGameUpdate(noisy, r) ==
    IF ~noisy THEN <<>>
    ELSE IF r.kind = "thrown" THEN <<"status.game_update.check_failed">>
    ELSE IF r.kind # "value" THEN <<>>
    ELSE IF r.err # NoErr THEN <<"status.game_update.check_failed">>
    ELSE IF r.hasUpgrade = "true"
         THEN IF r.game = "game" THEN <<"status.game_update.found">> ELSE <<>>
    ELSE IF r.game = "game" THEN <<"status.game_update.not_found">>
    ELSE <<>>

\* doCheckForGameUpdate has settled: the caller goes on after its await. The callers are
\* checkForGameUpdate, lines 77-98, and with noisy unset the pass of lines 55-59, which
\* dispatches nothing
CheckForGameUpdateSettled ==
    /\ chk.pc = "done"
    /\ ~chk.reported
    /\ chk' = [chk EXCEPT !.reported = TRUE]
    /\ statusMessages' = statusMessages \o checkForGameUpdate(chk.noisy, chk.result)
    /\ UNCHANGED <<installVars, schedVars, cave, launchTask, queued, modals, netCalls>>

\* a "launch" task for the game appears in the session's task list
LaunchBegins ==
    /\ ~launchTask
    /\ launchTask' = TRUE
    /\ UNCHANGED <<installVars, schedVars, cave, chk, queued, modals, statusMessages, netCalls>>

\* the "launch" task is removed from the session's task list
LaunchEnds ==
    /\ launchTask
    /\ launchTask' = FALSE
    /\ UNCHANGED <<installVars, schedVars, cave, chk, queued, modals, statusMessages, netCalls>>

----------------------------------------------------------------------------
(* The update scheduler: sessionReady and checkForGameUpdates, src/unnamed/part_000 *)

\* the ids of the caves the market may hold
CaveIds == {1, 2}

DELAY_BETWEEN_GAMES == 25
DELAY_BETWEEN_PASSES == 20 * 60 * 1000
DELAY_BETWEEN_PASSES_WIGGLE == 10 * 60 * 1000

\* Math.random() * DELAY_BETWEEN_PASSES_WIGGLE for Math.random() = 0, 1/2 and the largest
\* value below 1
RandomWiggles == {0, DELAY_BETWEEN_PASSES_WIGGLE \div 2, DELAY_BETWEEN_PASSES_WIGGLE - 1}

\* delay(ms): the time after which the returned promise resolves
delay(ms) == ms

\* a loop that waits for the jitter alone
loopDelay_wiggleOnly(wiggle) == delay(wiggle)

\* the argument of the loop's delay, line 373
loopDelay(wiggle) == delay(DELAY_BETWEEN_PASSES + wiggle)

Event(ev, caveId) == [ev |-> ev, cave |-> caveId]

\* checkForGameUpdates from its entry to its first await
checkForGameUpdates(caves) ==
    LET keys == SortedSeq(caves)
    IN IF keys = <<>>
       THEN [keys |-> keys, next |-> 1, pc |-> "done", events |-> <<>>]
       ELSE [keys |-> keys, next |-> 1, pc |-> "check",
             events |-> <<Event("check", keys[1])>>]

\* store.dispatch(actions.checkForGameUpdates())
Dispatch == passes' = Append(passes, checkForGameUpdates(storeCaves))

\* a sessionReady without the updaterInstalled test
SessionReady_unguarded ==
    /\ readyCalls < MaxReady
    /\ Len(passes) < MaxPasses
    /\ readyCalls' = readyCalls + 1
    /\ updaterInstalled' = TRUE
    /\ Dispatch
    /\ \E wiggle \in RandomWiggles : loops' = Append(loops, loopDelay(wiggle))
    /\ UNCHANGED <<installVars, cave, checkVars, interval, storeCaves>>

\* sessionReady from its entry to the first await of its loop
SessionReady ==
    /\ readyCalls < MaxReady
    /\ readyCalls' = readyCalls + 1
    /\ IF updaterInstalled
       THEN UNCHANGED <<updaterInstalled, loops, passes>>
       ELSE /\ updaterInstalled' = TRUE
            /\ Dispatch
            /\ \E wiggle \in RandomWiggles : loops' = Append(loops, loopDelay(wiggle))
    /\ UNCHANGED <<installVars, cave, checkVars, interval, storeCaves>>

\* the delay of loop l is over: the next iteration of while (true), up to its await
LoopWake(l) ==
    /\ Len(passes) < MaxPasses
    /\ interval' = loops[l]
    /\ Dispatch
    /\ \E wiggle \in RandomWiggles : loops' = [loops EXCEPT ![l] = loopDelay(wiggle)]
    /\ UNCHANGED <<installVars, cave, checkVars, updaterInstalled, readyCalls, storeCaves>>

CheckOutcomes == {"result", "error", "thrown"}

\* a pass in which an exception of doCheckForGameUpdate ends the iteration
CheckSettled_noCatch(p, outcome) ==
    /\ passes[p].pc = "check"
    /\ passes' = [passes EXCEPT ![p] =
           IF outcome = "thrown"
           THEN [@ EXCEPT !.pc = "done",
                          !.events = Append(@, Event(outcome, passes[p].keys[passes[p].next]))]
           ELSE [@ EXCEPT !.pc = "delay",
                          !.events = Append(@, Event(outcome, passes[p].keys[passes[p].next]))]]
    /\ UNCHANGED <<installVars, cave, checkVars, updaterInstalled, loops, readyCalls,
                   interval, storeCaves>>

\* doCheckForGameUpdate settles in pass p: lines 56-60, up to the await on delay
CheckSettled(p, outcome) ==
    /\ passes[p].pc = "check"
    /\ passes' = [passes EXCEPT ![p] =
           [@ EXCEPT !.pc = "delay",
                     !.events = Append(@, Event(outcome, passes[p].keys[passes[p].next]))]]
    /\ UNCHANGED <<installVars, cave, checkVars, updaterInstalled, loops, readyCalls,
                   interval, storeCaves>>

\* delay(DELAY_BETWEEN_GAMES) is over in pass p: the next cave, or the end of the pass
GameDelayElapsed(p) ==
    /\ passes[p].pc = "delay"
    /\ LET ps == passes[p]
           waited == Append(ps.events, Event("delay", ps.keys[ps.next]))
       IN passes' = [passes EXCEPT ![p] =
              IF ps.next < Len(ps.keys)
              THEN [@ EXCEPT !.next = @ + 1, !.pc = "check",
                             !.events = Append(waited, Event("check", ps.keys[ps.next + 1]))]
              ELSE [@ EXCEPT !.pc = "done", !.events = waited]]
    /\ UNCHANGED <<installVars, cave, checkVars, updaterInstalled, loops, readyCalls,
                   interval, storeCaves>>

----------------------------------------------------------------------------
(* Specifications *)

FileStates == {"absent", "partial", "complete"}

\* the updater module as loaded: no session yet, no loop, no pass
SchedIdle ==
    /\ updaterInstalled = FALSE
    /\ loops = <<>>
    /\ readyCalls = 0
    /\ passes = <<>>
    /\ interval = -1
    /\ storeCaves = {}

CheckIdle ==
    /\ chk = IdleCheck
    /\ launchTask = FALSE
    /\ queued = <<>>
    /\ modals = <<>>
    /\ statusMessages = <<>>
    /\ netCalls = <<>>

\* the cave of a game installed earlier, as the entity store holds it
InstalledCave ==
    [installedBy |-> 1, launchable |-> TRUE, gameId |-> 1, uploadId |-> 1, buildId |-> 5,
     installedAt |-> 2]

\* no install yet; the archive of upload 1 may be on disk, whole or cut short by an
\* interrupted run
InitInstall ==
    /\ items = <<>>
    /\ files \in {f \in [ArchiveIds -> FileStates] : \A p \in ArchiveIds \ {1} : f[p] = "absent"}
    /\ cave = InstalledCave
    /\ CheckIdle
    /\ SchedIdle

NextInstall ==
    \/ \E game \in Games : DownloadQueue(game)
    \/ \E i \in 1..Len(items), uploads \in SeqsUpTo(ListedUploads, MaxListed) :
          UploadsResolved(i, uploads)
    \/ \E i \in 1..Len(items) : ApiRejected(i)
    \/ \E i \in 1..Len(items) : UrlResolved(i)
    \/ \E i \in 1..Len(items) : WriterOpen(i)
    \/ \E i \in 1..Len(items) : TransferProgress(i)
    \/ \E i \in 1..Len(items) : TransferClose(i)
    \/ \E i \in 1..Len(items), ok \in BOOLEAN : ExtractSettled(i, ok)
    \/ \E i \in 1..Len(items), ok \in BOOLEAN, executables \in {-1, 1},
          launcherOk \in BOOLEAN : ConfigureSettled(i, ok, executables, launcherOk)

SpecInstall == InitInstall /\ [][NextInstall]_vars

InitCheck ==
    /\ items = <<>>
    /\ files = [p \in ArchiveIds |-> "absent"]
    /\ cave \in Caves
    /\ CheckIdle
    /\ SchedIdle

NextCheck ==
    \/ \E noisy \in BOOLEAN, me \in {0} \cup UserIds : StartCheck(noisy, me)
    \/ \E e \in ErrKinds : FetchGameRejected(e)
    \/ \E found \in BOOLEAN : FetchGameResolved(found)
    \/ \E e \in ErrKinds : FindUploadRejected(e)
    \/ \E uploads \in UploadLists : FindUploadResolved(uploads)
    \/ \E resolved \in UpgradePaths : FindUpgradePathResolved(resolved)
    \/ \E e \in ErrKinds : FindUpgradePathRejected(e)
    \/ StartDownloadResolved
    \/ \E e \in ErrKinds : StartDownloadRejected(e)
    \/ CheckForGameUpdateSettled
    \/ LaunchBegins
    \/ LaunchEnds

SpecCheck == InitCheck /\ [][NextCheck]_vars

InitSched ==
    /\ items = <<>>
    /\ files = [p \in ArchiveIds |-> "absent"]
    /\ cave = InstalledCave
    /\ CheckIdle
    /\ updaterInstalled = FALSE
    /\ loops = <<>>
    /\ readyCalls = 0
    /\ passes = <<>>
    /\ interval = -1
    /\ storeCaves \in {{}, {1}, CaveIds}

NextSched ==
    \/ SessionReady
    \/ \E l \in 1..Len(loops) : LoopWake(l)
    \/ \E p \in 1..Len(passes), outcome \in CheckOutcomes : CheckSettled(p, outcome)
    \/ \E p \in 1..Len(passes) : GameDelayElapsed(p)

SpecSched == InitSched /\ [][NextSched]_vars

----------------------------------------------------------------------------
(* Properties of the install pipeline, checked under SpecInstall            *)

Ops(it) == {it.calls[k].op : k \in 1..Len(it.calls)}

CountOp(it, op) == Cardinality({k \in 1..Len(it.calls) : it.calls[k].op = op})

\* the position of the first call of that name, 0 when there is none
FirstOp(it, op) ==
    LET hits == {k \in 1..Len(it.calls) : it.calls[k].op = op}
    IN IF hits = {} THEN 0 ELSE CHOOSE k \in hits : \A j \in hits : k <= j

\* C1: every AppInstall starts in PENDING and each assignment to its state keeps the
\* state or moves it to the next one of PENDING, SEARCHING_UPLOAD, DOWNLOADING,
\* EXTRACTING, CONFIGURING, RUNNING: no state is skipped, none is entered again, so a
\* pipeline in RUNNING went through DOWNLOADING, EXTRACTING, CONFIGURING in that order.
C1_StateOnlyMovesForward ==
    \A i \in 1..Len(items) :
        LET log == items[i].stateLog IN
        /\ log[1] = "PENDING"
        /\ items[i].state = log[Len(log)]
        /\ \A k \in 1..(Len(log) - 1) :
              \/ log[k + 1] = log[k]
              \/ \E r \in 1..5 : log[k] = InstallState[r] /\ log[k + 1] = InstallState[r + 1]
        /\ items[i].state = "RUNNING" =>
              \E d, e, c \in 1..Len(log) :
                  /\ d < e /\ e < c /\ c < Len(log)
                  /\ log[d] = "DOWNLOADING" /\ log[e] = "EXTRACTING" /\ log[c] = "CONFIGURING"

C1_Witness ==
    \E i \in 1..Len(items) : items[i].state = "RUNNING" /\ items[i].existed = "yes"

\* C2: once the extractor has failed, the pipeline is in EXTRACTING with nothing pending,
\* the extractor was called once, the configurator and the launcher were not called, the
\* user was notified with the game's title, the error was raised again, and the cave's
\* upload id, build id and install time are what they were.
C2_ExtractFailureHalts ==
    \A i \in 1..Len(items) :
        items[i].failed = "extractor" =>
            /\ items[i].state = "EXTRACTING"
            /\ items[i].pending = "none"
            /\ CountOp(items[i], "extract") = 1
            /\ Ops(items[i]) \cap {"configure", "launch"} = {}
            /\ items[i].calls[Len(items[i].calls)] =
                   [op |-> "notify_failed", arg |-> items[i].game.title]
            /\ items[i].raised
            /\ cave.uploadId = 1 /\ cave.buildId = 5 /\ cave.installedAt = 2

C2_Witness ==
    \E i \in 1..Len(items) :
        /\ items[i].failed = "extractor"
        /\ \E j \in 1..Len(items) : items[j].state = "RUNNING"

\* C3: a pipeline whose download found a file at the archive path made no transfer
\* request and reported no progress and no completion, and it is past DOWNLOADING; a
\* pipeline whose download found no file is in DOWNLOADING until the transfer closes,
\* and its extraction was started after the request, the clearing of the progress
\* indicator and the completion notification, in that order.
C3_DownloadSkipsOrWaits ==
    \A i \in 1..Len(items) :
        LET it == items[i] IN
        /\ it.existed = "yes" =>
              /\ Ops(it) \cap {"request_get", "clear_progress", "bounce",
                               "notify_finished"} = {}
              /\ it.progress = "none"
              /\ it.state \in {"EXTRACTING", "CONFIGURING", "RUNNING"}
              /\ it.writer = "none"
        /\ it.existed = "no" =>
              /\ it.writer # "closed" => it.state = "DOWNLOADING" /\ "extract" \notin Ops(it)
              /\ it.writer = "closed" =>
                    /\ 0 < FirstOp(it, "request_get")
                    /\ FirstOp(it, "request_get") < FirstOp(it, "clear_progress")
                    /\ FirstOp(it, "clear_progress") < FirstOp(it, "notify_finished")
                    /\ FirstOp(it, "notify_finished") < FirstOp(it, "extract")
                    /\ CountOp(it, "extract") = 1
                    /\ it.progress = "cleared"
                    /\ it.calls[FirstOp(it, "notify_finished")].arg = it.game.title

C3_Witness ==
    \E i, j \in 1..Len(items) :
        /\ items[i].existed = "yes" /\ items[i].state = "EXTRACTING"
        /\ items[j].existed = "no" /\ items[j].state = "EXTRACTING"

----------------------------------------------------------------------------
(* Properties of the update checker, checked under SpecCheck                *)

Done == chk.pc = "done"

\* findUpload answered with at least one upload
Answered == Len(chk.uploads) > 0

Cutoff == IF cave.installedAt < 0 THEN 0 ELSE cave.installedAt

\* the uploads of the answer updated after the cave was installed
Recent == SelectSeq(chk.uploads, LAMBDA u : u.updatedAt > Cutoff)

Tracked == cave.uploadId # 0 /\ cave.buildId # 0

\* the installed upload is listed and now carries another build
NewBuildCase ==
    /\ Tracked
    /\ \E k \in 1..Len(chk.uploads) :
          /\ chk.uploads[k].id = cave.uploadId
          /\ chk.uploads[k].buildId # 0
          /\ chk.uploads[k].buildId # cave.buildId

\* the installed upload is listed with the build the cave has
SameBuildCase ==
    /\ Tracked
    /\ \E k \in 1..Len(chk.uploads) :
          chk.uploads[k].id = cave.uploadId /\ chk.uploads[k].buildId = cave.buildId

IsIncremental(r) == r.incremental = "true" /\ r.reason = "update"

IsFull(r, id, handPicked) ==
    /\ r.upload = id
    /\ r.reason = "update"
    /\ r.incremental = "undefined"
    /\ r.handPicked = handPicked
    /\ r.upgradePath = <<>>

\* C4, as claimed: whenever the installed upload is listed with another build, the check
\* ends with hasUpgrade=true and exactly one queued request, an incremental one, and
\* opens no prompt.
C4_AlwaysQueuesIncremental ==
    Done /\ NewBuildCase =>
        /\ chk.result.hasUpgrade = "true"
        /\ Len(queued) = 1
        /\ IsIncremental(queued[1])
        /\ modals = <<>>

\* C4, amended: when the installed upload is listed with another build, the check opens no
\* prompt and queues no full download; if the resolver and the queuing both succeed it
\* returns hasUpgrade=true with exactly one queued request, incremental, reason "update",
\* for the installed upload, carrying the resolved patch list and total size; if one of
\* them fails it returns an error without hasUpgrade=true, and a failed resolver leaves
\* nothing queued.
C4_QueuesIncrementalWhenResolved ==
    NewBuildCase =>
        /\ modals = <<>>
        /\ Len(queued) <= 1
        /\ \A k \in 1..Len(queued) : IsIncremental(queued[k])
        /\ Done /\ chk.rejected = "none" =>
              /\ chk.result.kind = "value"
              /\ chk.result.hasUpgrade = "true"
              /\ chk.result.err = NoErr
              /\ Len(queued) = 1
              /\ queued[1].upload = cave.uploadId
              /\ queued[1].upgradePath = chk.resolved.upgradePath
              /\ queued[1].totalSize = chk.resolved.totalSize
        /\ Done /\ chk.rejected # "none" =>
              /\ chk.result.err.form = "message"
              /\ chk.result.hasUpgrade # "true"
              /\ chk.rejected = "findUpgradePath" => queued = <<>>

C4_Witness ==
    /\ Done /\ NewBuildCase /\ chk.rejected = "none"
    /\ Len(Recent) = 3
    /\ Len(queued) = 1

\* C5: when the installed upload is listed with the build the cave has, the check is over
\* with hasUpgrade=false and no error, nothing was queued and no prompt was opened,
\* however many uploads are recent.
C5_SameBuildNoUpgrade ==
    SameBuildCase =>
        /\ Done
        /\ chk.result.kind = "value"
        /\ chk.result.hasUpgrade = "false"
        /\ chk.result.err = NoErr
        /\ queued = <<>>
        /\ modals = <<>>

C5_Witness == Done /\ SameBuildCase /\ Len(Recent) = 3

\* C6: when more than one upload is recent and the incremental branch did not return,
\* nothing is handed to startDownload, exactly one modal is dispatched, its big buttons
\* are the recent uploads in order, each a full download with reason "update" and
\* handPicked=true, its only other button is cancel, and the result has hasUpgrade=true.
C6_SeveralRecentAsksUser ==
    Answered /\ ~NewBuildCase /\ ~SameBuildCase /\ Len(Recent) > 1 =>
        /\ Done
        /\ queued = <<>>
        /\ Len(modals) = 1
        /\ modals[1].buttons = <<"cancel">>
        /\ Len(modals[1].bigButtons) = Len(Recent)
        /\ \A k \in 1..Len(Recent) :
              IsFull(modals[1].bigButtons[k].action, Recent[k].id, "true")
        /\ chk.result.kind = "value"
        /\ chk.result.hasUpgrade = "true"

C6_Witness ==
    /\ Done /\ Answered /\ Tracked /\ ~NewBuildCase /\ ~SameBuildCase
    /\ Len(Recent) = 3 /\ Len(modals) = 1

\* C7: when exactly one upload is recent and the incremental branch did not return: if
\* that upload is not the installed one, exactly one request was handed to startDownload,
\* a full download of it with reason "update" and handPicked=false, and no prompt was
\* opened; if it is the installed one and did not gain a build id the cave lacks, nothing
\* was queued.
C7_SingleRecentQueuesFull ==
    Answered /\ ~NewBuildCase /\ ~SameBuildCase /\ Len(Recent) = 1 =>
        /\ Recent[1].id # cave.uploadId =>
              /\ Len(queued) = 1
              /\ IsFull(queued[1], Recent[1].id, "false")
              /\ modals = <<>>
        /\ Recent[1].id = cave.uploadId /\ ~(Recent[1].buildId # 0 /\ cave.buildId = 0) =>
              /\ queued = <<>>
              /\ modals = <<>>

C7_Witness ==
    /\ Done /\ Answered /\ ~NewBuildCase /\ ~SameBuildCase
    /\ Len(chk.uploads) = 3 /\ Len(Recent) = 1
    /\ Recent[1].id # cave.uploadId
    /\ Len(queued) = 1 /\ chk.rejected = "none"

\* C8, as claimed: of a check in which no collaborator failed, the returned hasUpgrade is
\* true whenever a request was queued or a prompt opened, and false whenever neither
\* happened and no error is reported.
C8_HasUpgradeReflectsOutcome ==
    Done /\ chk.rejected = "none" /\ chk.result.kind = "value" =>
        /\ (queued # <<>> \/ modals # <<>>) => chk.result.hasUpgrade = "true"
        /\ (queued = <<>> /\ modals = <<>> /\ chk.result.err = NoErr) =>
              chk.result.hasUpgrade = "false"

\* C9, as claimed: a check of a cave whose recorded installing user is not the session's
\* user, a session without user included, is over with hasUpgrade=false and has made no
\* network call and queued nothing.
C9_OtherUsersCaveSkipped ==
    chk.pc # "idle" /\ cave.installedBy # 0 /\ cave.installedBy # chk.me =>
        /\ Done
        /\ chk.result.hasUpgrade = "false"
        /\ netCalls = <<>>
        /\ queued = <<>>

\* C9, amended: a check of a cave whose recorded installing user is not the user of a
\* session that has one is over with hasUpgrade=false and no error, has made no network
\* call, queued nothing and opened no prompt.
C9_OtherUsersCaveSkippedWhenSignedIn ==
    chk.pc # "idle" /\ cave.installedBy # 0 /\ chk.me # 0 /\ cave.installedBy # chk.me =>
        /\ Done
        /\ chk.result.kind = "value"
        /\ chk.result.hasUpgrade = "false"
        /\ chk.result.err = NoErr
        /\ netCalls = <<>>
        /\ queued = <<>>
        /\ modals = <<>>

C9_Witness ==
    /\ Done /\ cave.installedBy = 1 /\ chk.me = 2
    /\ cave.launchable /\ cave.gameId # 0

GuardOrder == <<"installedBy", "launchable", "gameId", "gameFetch", "launchTask">>

\* C10: a check of a cave that is not launchable, or that has no gameId, is over with
\* hasUpgrade=false and no error, and has made no network call, queued nothing and opened
\* no prompt; and the guards a check has evaluated are an initial part of: installing
\* user, launchable, gameId, game fetch, launch task.
C10_UnlaunchableSkipped ==
    chk.pc # "idle" =>
        /\ (~cave.launchable \/ cave.gameId = 0) =>
              /\ Done
              /\ chk.result.kind = "value"
              /\ chk.result.hasUpgrade = "false"
              /\ chk.result.err = NoErr
              /\ netCalls = <<>>
              /\ queued = <<>>
              /\ modals = <<>>
        /\ Len(chk.guards) <= Len(GuardOrder)
        /\ chk.guards = SubSeq(GuardOrder, 1, Len(chk.guards))
        /\ (netCalls # <<>>) => (Len(chk.guards) >= 4 /\ netCalls[1] = "gameLazily")

C10_Witness ==
    /\ Done /\ ~cave.launchable /\ cave.gameId # 0
    /\ cave.installedBy = 1 /\ chk.me = 1
    /\ chk.guards = <<"installedBy", "launchable">>

\* C11, as claimed: no request is handed to startDownload and no prompt is opened in a
\* step taken while a "launch" task for the game is in the session's task list.
C11_NoProposalDuringLaunch ==
    [][(queued' # queued \/ modals' # modals) => ~launchTask]_vars

\* C16, as claimed: a check that is over has returned an UpdateCheckResult value; it has
\* not thrown.
C16_NeverThrows == Done => chk.result.kind = "value"

MainLogic == {"findUpload", "findUpgradePath", "startDownload"}

\* C17, as claimed: when a collaborator of the main logic rejects, nothing is thrown; an
\* "incorrect user for claim" error gives a result without error and hasUpgrade=false, a
\* network error and any other error give a result with the error set; a failed upload
\* listing or resolution leaves nothing queued.
C17_ErrorsClassified ==
    Done /\ chk.rejected \in MainLogic =>
        /\ chk.result.kind = "value"
        /\ chk.rejectedWith = "claim" =>
              chk.result.err = NoErr /\ chk.result.hasUpgrade = "false"
        /\ chk.rejectedWith \in {"network", "other"} => chk.result.err # NoErr
        /\ chk.rejected # "startDownload" => queued = <<>>

\* the rejection was caught by the catch of lines 251-254
CaughtInside ==
    \/ chk.rejected = "findUpgradePath"
    \/ chk.rejected = "startDownload" /\ chk.hasUpgrade

\* C17, amended: when a collaborator of the main logic rejects, nothing is thrown and a
\* failed upload listing or resolution leaves nothing queued. A rejection of findUpload,
\* or of startDownload in the single-recent-upload branch, is classified: "incorrect user
\* for claim" gives a result without error and hasUpgrade=false, a network error gives
\* the error "Network error", any other error gives that error. A rejection of the
\* resolver or of startDownload in the incremental branch gives a result whose error is
\* the message of the exception, whatever its kind, and no hasUpgrade=true.
C17_ErrorsClassifiedOutsideIncremental ==
    Done /\ chk.rejected \in MainLogic =>
        /\ chk.result.kind = "value"
        /\ chk.rejected # "startDownload" => queued = <<>>
        /\ ~CaughtInside =>
              /\ chk.rejectedWith = "claim" =>
                    chk.result.err = NoErr /\ chk.result.hasUpgrade = "false"
              /\ chk.rejectedWith = "network" =>
                    chk.result.err = [form |-> "new", e |-> "Network error"]
              /\ chk.rejectedWith = "other" =>
                    chk.result.err = [form |-> "error", e |-> "other"]
        /\ CaughtInside =>
              /\ chk.result.err = [form |-> "message", e |-> chk.rejectedWith]
              /\ chk.result.hasUpgrade # "true"

C17_Witness ==
    /\ Done /\ chk.rejected = "startDownload" /\ chk.rejectedWith = "claim"
    /\ ~chk.hasUpgrade
    /\ chk.result.err = NoErr

\* C18: no step of a check changes the cave record; and once the resolver has rejected,
\* the check is over with an error result that does not say hasUpgrade=true, nothing was
\* handed to startDownload and no prompt was opened.
C18_ResolverFailureKeepsCave ==
    [][/\ cave' = cave
       /\ chk'.rejected = "findUpgradePath" =>
             /\ chk'.pc = "done"
             /\ chk'.result.kind = "value"
             /\ chk'.result.err # NoErr
             /\ chk'.result.hasUpgrade # "true"
             /\ queued' = <<>>
             /\ modals' = <<>>]_vars

C18_Witness ==
    /\ Done /\ chk.rejected = "findUpgradePath"
    /\ cave.uploadId = 1 /\ cave.buildId = 5 /\ cave.installedAt = 2

\* the cave tracks a build, and its upload is not listed or is listed without a build id
BrokenChain == Answered /\ Tracked /\ ~NewBuildCase /\ ~SameBuildCase

\* C19: for a cave that tracks a build whose upload is not listed, or is listed without a
\* build id, the check does not throw and reports no error unless a collaborator
\* rejected; with no recent upload it is over with hasUpgrade=false, nothing queued and
\* no prompt; with one recent upload it queued one full download of it when it is not the
\* installed upload and nothing when it is; with several it queued nothing and opened one
\* prompt with a button per recent upload, returning hasUpgrade=true.
C19_BrokenChainFallsThrough ==
    BrokenChain =>
        /\ chk.result.kind # "thrown"
        /\ Done /\ chk.rejected = "none" => chk.result.err = NoErr
        /\ Len(Recent) = 0 =>
              /\ Done
              /\ chk.result.hasUpgrade = "false"
              /\ queued = <<>>
              /\ modals = <<>>
        /\ Len(Recent) = 1 =>
              /\ modals = <<>>
              /\ IF Recent[1].id # cave.uploadId
                 THEN Len(queued) = 1 /\ IsFull(queued[1], Recent[1].id, "false")
                 ELSE queued = <<>> /\ Done /\ chk.result.hasUpgrade = "false"
        /\ Len(Recent) > 1 =>
              /\ Done
              /\ queued = <<>>
              /\ Len(modals) = 1
              /\ Len(modals[1].bigButtons) = Len(Recent)
              /\ chk.result.hasUpgrade = "true"

C19_Witness ==
    /\ Done /\ BrokenChain
    /\ \A k \in 1..Len(chk.uploads) : chk.uploads[k].id # cave.uploadId
    /\ Len(Recent) = 1 /\ Len(queued) = 1 /\ chk.rejected = "none"

----------------------------------------------------------------------------
(* More properties of the install pipeline, checked under SpecInstall       *)

\* the step moves pipeline i into EXTRACTING
EntersExtracting(i) == items[i].state # "EXTRACTING" /\ items'[i].state = "EXTRACTING"

\* C20, as claimed: whenever a pipeline enters EXTRACTING, the file at its archive path is
\* whole, written by a transfer that reached its close event.
C20_ExtractsOnlyWholeArchives ==
    [][\A i \in 1..Len(items) :
          EntersExtracting(i) => files'[items'[i].archive_path] = "complete"]_vars

\* C20, amended: whenever a pipeline enters EXTRACTING, a file exists at its archive path;
\* a pipeline that found no file there enters EXTRACTING only from the close event of its
\* own transfer; the file is then whole unless the pipeline found it on disk, where it is
\* taken as it is, or another pipeline is still writing the same path.
C20_ExtractsExistingArchives ==
    [][\A i \in 1..Len(items) :
          EntersExtracting(i) =>
              LET it == items'[i]
                  file == files'[it.archive_path]
                  writing == {j \in 1..Len(items) :
                                 /\ j # i
                                 /\ items'[j].archive_path = it.archive_path
                                 /\ items'[j].writer = "open"}
              IN /\ file # "absent"
                 /\ it.existed = "no" => it.writer = "closed"
                 /\ it.existed = "yes" => it.writer = "none"
                 /\ file = "partial" => it.existed = "yes" \/ writing # {}]_vars

\* two pipelines of the same upload, the second extracting what the first still writes
C20_Witness ==
    \E i, j \in 1..Len(items) :
        /\ i # j
        /\ items[i].archive_path = items[j].archive_path
        /\ items[i].writer = "open"
        /\ items[j].existed = "yes" /\ items[j].state = "EXTRACTING"
        /\ files[items[j].archive_path] = "partial"


----------------------------------------------------------------------------
(* The scheduler: sessionReady and checkForGameUpdates *)

\* C12: however often sessionReady arrives, at most one polling loop is started: only the
\* first call enters the loop, every later call returns without dispatching a pass.
C12_OneLoopOnly ==
    [][/\ Len(loops') <= 1
       /\ (readyCalls' # readyCalls /\ readyCalls > 0) => UNCHANGED <<loops, passes>>]_vars

C12_Witness == readyCalls = MaxReady /\ Len(loops) = 1 /\ Len(passes) = 1

InProgress(p) == passes[p].pc # "done"

\* C13: the scheduler loop dispatches no new pass while the cave iteration of a pass
\* dispatched earlier is still in progress.
C13_PassesNeverOverlap ==
    [][Len(passes') > Len(passes) => \A p \in 1..Len(passes) : ~InProgress(p)]_vars

\* the event at position k of a pass over keys: check, outcome, delay for each cave in turn
ExpectedEvents(keys, k) ==
    [ev : CASE k % 3 = 1 -> {"check"} [] k % 3 = 2 -> CheckOutcomes [] OTHER -> {"delay"},
     cave : {keys[(k - 1) \div 3 + 1]}]

InSequence(p) ==
    LET ps == passes[p]
        n == Len(ps.events)
    IN /\ ps.keys = SortedSeq(storeCaves)
       /\ n <= 3 * Len(ps.keys)
       /\ \A k \in 1..n : ps.events[k] \in ExpectedEvents(ps.keys, k)
       /\ ps.pc = "done" <=> n = 3 * Len(ps.keys)
       /\ ps.pc = "check" <=> n % 3 = 1
       /\ ps.pc = "delay" <=> n % 3 = 2

----------------------------------------------------------------------------
(* The status messages of a check *)

Dispatched(m) == \E k \in 1..Len(statusMessages) : statusMessages[k] = m

\* C21: one check dispatches at most one status message, never both "found" and
\* "check_failed", and none at all when it is not noisy.
C21_AtMostOneStatusMessage ==
    /\ Len(statusMessages) <= 1
    /\ ~(Dispatched("status.game_update.found") /\ Dispatched("status.game_update.check_failed"))
    /\ ~chk.noisy => statusMessages = <<>>

====
